---- MODULE Spec2Model ----
(***************************************************************************)
(* The resilient API client of the Influencore single-page application:    *)
(* class ApiClient (timeout guard, bounded retry with backoff, offline     *)
(* request queue) as written in src/App.jsx:112-225, together with the two *)
(* other revisions of the same class that the repository carries           *)
(* (src/unnamed/part_002:878-967 and src/test.js:77-141), the client       *)
(* without retry of the second application in src/App.jsx:871-930, and the *)
(* apiCall wrappers that put the session token on a request                *)
(* (src/App.jsx:243-251 and 971-977), the apiCall of the first application *)
(* that calls fetch itself (src/unnamed/part_000:28-58), and the           *)
(* ErrorBoundary component (src/App.jsx:57-109).                           *)
(*                                                                         *)
(* JavaScript runs handlers to completion on one event loop, so one action *)
(* is one task: an event handler or the continuation of an await, with     *)
(* every synchronous call it makes.                                        *)
(***************************************************************************)
EXTENDS Integers, Sequences, FiniteSets, TLC

\* ------------------------------------------------------------------ bounds
\* Number of requests the callers issue in one run.
NumReqs == 2

Reqs == 1..NumReqs

\* ------------------------------------------------------- program constants
BaseDelay == 1000
MaxDelay == 5000
DefaultMaxRetries == 3
Part002MaxRetries == 3
TestJsMaxRetries == 3

\* The revisions of class ApiClient that retry.
Revisions == {"AppJsx", "Part002", "TestJs"}

\* The clients behind an apiCall wrapper: those, and the ApiClient of the
\* second application, whose request method makes one attempt.
AuthRevisions == Revisions \cup {"AppJsxRequest"}

\* Every client that decodes a response: those, and AuthProvider.apiCall of
\* the first application, which calls fetch itself.
DecodeRevisions == AuthRevisions \cup {"Part000"}

\* Session tokens the backend issues; "" stands for null (no session).
Tokens == {"t1", "t2"}

\* The Authorization header of the options a caller hands in; "" stands
\* for options without one.
CallerAuthorizations == {"", "Basic abc"}

\* The user object of a session; "" stands for null.
SessionUser == "alice"

\* Largest VITE_MAX_RETRIES the builds of the retry workload set.
MaxEnvRetries == 5

\* VITE_MAX_RETRIES as the build may set it: unset (parseInt gives NaN,
\* written 0 here: NaN and 0 are both falsy) or a positive number.
EnvMaxRetries == 0..MaxEnvRetries

\* The builds of the queue workload: VITE_MAX_RETRIES unset, or 1.
QueueEnvMaxRetries == {0, 1}

\* Most recovery timers of ErrorBoundary pending at one time.
MaxPendingTimers == 3

\* What the children of ErrorBoundary throw while rendering.
RenderErrors == {"TypeError", "ChunkLoadError"}

\* The retry limit of ErrorBoundary: retryCount < 3, retryCount >= 3.
BoundaryRetryLimit == 3

VARIABLES
    boundary,       \* ErrorBoundary: this.state, and its pending recovery timers
    loggedOutToken, \* history: the token of the session the last logout ended
    token,          \* the session token (AuthProvider state / store field)
    user,           \* useAppStore user
    rev,            \* which revision of ApiClient runs
    maxRetries,     \* config.maxRetries
    isOnline,       \* ApiClient.isOnline
    networkStatus,  \* useAppStore networkStatus
    requestQueue,   \* ApiClient.requestQueue: the queued entries, by request
    req,            \* per request: the state of its apiCall / queue entry
    enqueued,       \* history: requests in the order they were pushed
    dispatched,     \* history: queued requests in the order processQueue dispatched them
    settledOrder    \* history: queued requests in the order their promise settled

vars == <<boundary, loggedOutToken, token, user, rev, maxRetries, isOnline, networkStatus, requestQueue, req,
          enqueued, dispatched, settledOrder>>

\* ------------------------------------------------------------------ strings
\* String.prototype.includes
includes(s, sub) ==
    \E i \in 1..(Len(s) - Len(sub) + 1) : SubSeq(s, i, i + Len(sub) - 1) = sub

\* ------------------------------------------------------------------- errors
NoError == [name |-> "", message |-> "", cause |-> "none", status |-> 0]

\* What fetch rejects with when the timer calls controller.abort().
AbortError ==
    [name |-> "AbortError", message |-> "The user aborted a request.",
     cause |-> "timeout", status |-> 0]

\* What fetch rejects with on a network failure: the TypeError message of
\* Chromium ("Failed to fetch") and of WebKit ("Load failed").
NetworkFailureMessages == {"Failed to fetch", "Load failed"}

NetworkError(msg) ==
    [name |-> "TypeError", message |-> msg, cause |-> "network", status |-> 0]

\* response.json() of a successful response whose body is not JSON.
ParseError ==
    [name |-> "SyntaxError", message |-> "Unexpected token < in JSON at position 0",
     cause |-> "parse", status |-> 0]

\* Non-success statuses the backend answers with, and their reason phrases.
ErrorStatuses == {401, 409, 422, 500}

\* The statuses the backend of the queue workload answers with.
QueueErrorStatuses == {401, 500}

statusText(status) ==
    CASE status = 401 -> "Unauthorized"
      [] status = 409 -> "Conflict"
      [] status = 422 -> "Unprocessable Entity"
      [] status = 500 -> "Internal Server Error"
      [] OTHER -> ""

\* The message field of the error payload; "" stands for a body that is
\* absent, unparsable or carries no message (errorData.message is falsy).
PayloadMessages == {"", "Session timeout"}

\* `${response.status}`
statusString(status) ==
    CASE status = 401 -> "401"
      [] status = 409 -> "409"
      [] status = 422 -> "422"
      [] status = 500 -> "500"
      [] OTHER -> "0"

\* errorData.message || `API Error: ${response.status} ${response.statusText}`
httpErrorMessage_AppJsx(status, payloadMessage) ==
    IF payloadMessage # "" THEN payloadMessage
    ELSE "API Error: " \o statusString(status) \o " " \o statusText(status)

\* errorData.message || `API Error: ${response.status}`
httpErrorMessage_Part002(status, payloadMessage) ==
    IF payloadMessage # "" THEN payloadMessage
    ELSE "API Error: " \o statusString(status)

\* errorData.message || `API Error: ${response.status}`
httpErrorMessage_TestJs(status, payloadMessage) ==
    IF payloadMessage # "" THEN payloadMessage
    ELSE "API Error: " \o statusString(status)

\* errorData.error || `HTTP ${response.status}: ${response.statusText}`
\* (the payload field read is `error`)
httpErrorMessage_AppJsxRequest(status, payloadMessage) ==
    IF payloadMessage # "" THEN payloadMessage
    ELSE "HTTP " \o statusString(status) \o ": " \o statusText(status)

\* error.message || 'API request failed'
httpErrorMessage_Part000(status, payloadMessage) ==
    IF payloadMessage # "" THEN payloadMessage ELSE "API request failed"

\* The message of the Error that makeRequest throws for a non-success status.
httpErrorMessage(status, payloadMessage) ==
    CASE rev = "AppJsx" -> httpErrorMessage_AppJsx(status, payloadMessage)
      [] rev = "Part002" -> httpErrorMessage_Part002(status, payloadMessage)
      [] rev = "AppJsxRequest" -> httpErrorMessage_AppJsxRequest(status, payloadMessage)
      [] rev = "Part000" -> httpErrorMessage_Part000(status, payloadMessage)
      [] OTHER -> httpErrorMessage_TestJs(status, payloadMessage)

HttpError(status, payloadMessage) ==
    [name |-> "Error", message |-> httpErrorMessage(status, payloadMessage),
     cause |-> "http", status |-> status]

\* if (error.name === 'AbortError') throw new Error('Request timeout - please try again');
\* throw error;
makeRequestCatch_AppJsx(error) ==
    IF error.name = "AbortError"
    THEN [error EXCEPT !.name = "Error", !.message = "Request timeout - please try again"]
    ELSE error

\* if (error.name === 'AbortError') throw new Error('Request timeout');
\* throw error;
makeRequestCatch_Part002(error) ==
    IF error.name = "AbortError"
    THEN [error EXCEPT !.name = "Error", !.message = "Request timeout"]
    ELSE error

\* throw error;
makeRequestCatch_TestJs(error) == error

\* if (error.name === 'AbortError')
\*   throw new Error('Request timeout - please check your connection');
\* throw error;
makeRequestCatch_AppJsxRequest(error) ==
    IF error.name = "AbortError"
    THEN [error EXCEPT !.name = "Error",
                       !.message = "Request timeout - please check your connection"]
    ELSE error

\* console.error('API Error:', error); throw error;
makeRequestCatch_Part000(error) == error

\* The catch block of makeRequest (of request, in AppJsxRequest).
makeRequestCatch(error) ==
    CASE rev = "AppJsx" -> makeRequestCatch_AppJsx(error)
      [] rev = "Part002" -> makeRequestCatch_Part002(error)
      [] rev = "AppJsxRequest" -> makeRequestCatch_AppJsxRequest(error)
      [] rev = "Part000" -> makeRequestCatch_Part000(error)
      [] OTHER -> makeRequestCatch_TestJs(error)

\* apiCall of the revision without a queue, invoked offline.
OfflineError ==
    [name |-> "Error", message |-> "No internet connection",
     cause |-> "offline", status |-> 0]

\* --------------------------------------------------------------- retry loop
\* config.maxRetries: parseInt(import.meta.env.VITE_MAX_RETRIES) || 3
configMaxRetries(r, env) ==
    CASE r = "AppJsx" -> IF env = 0 THEN DefaultMaxRetries ELSE env
      [] r = "Part002" -> Part002MaxRetries
      [] r = "AppJsxRequest" -> 0      \* request has no retry loop
      [] r = "Part000" -> 0            \* nor has apiCall of part_000
      [] OTHER -> TestJsMaxRetries

\* for (...; attempt <= config.maxRetries; ...); Part002 writes 3 for
\* config.maxRetries, and maxRetries is 3 there.
loopCondition(attempt) == attempt <= maxRetries

\* Faulty variant: the retry does not count the attempt.
nextAttempt_NoIncrement(attempt) == attempt

\* attempt++
nextAttempt(attempt) == attempt + 1

\* Faulty variant: the last attempt is taken to be one later than it is.
isLastAttempt_OffByOne(attempt) == attempt = maxRetries + 1

\* attempt === config.maxRetries
isLastAttempt(attempt) == attempt = maxRetries

shouldRetry_AppJsx(attempt, error) ==
    /\ ~isLastAttempt(attempt)
    /\ \/ error.name = "AbortError"
       \/ includes(error.message, "fetch")
       \/ includes(error.message, "network")
       \/ includes(error.message, "timeout")

\* attempt < 3 && (...)
shouldRetry_Part002(attempt, error) ==
    /\ attempt < Part002MaxRetries
    /\ \/ error.name = "AbortError"
       \/ includes(error.message, "fetch")
       \/ includes(error.message, "network")

shouldRetry_TestJs(attempt, error) ==
    /\ ~isLastAttempt(attempt)
    /\ \/ error.name = "AbortError"
       \/ includes(error.message, "fetch")
       \/ includes(error.message, "network")

\* request has no catch that retries: its error goes to the caller.
shouldRetry_AppJsxRequest(attempt, error) == FALSE

\* apiCall of part_000 rethrows what it catches.
shouldRetry_Part000(attempt, error) == FALSE

shouldRetry(attempt, error) ==
    CASE rev = "AppJsx" -> shouldRetry_AppJsx(attempt, error)
      [] rev = "Part002" -> shouldRetry_Part002(attempt, error)
      [] rev = "AppJsxRequest" -> shouldRetry_AppJsxRequest(attempt, error)
      [] rev = "Part000" -> shouldRetry_Part000(attempt, error)
      [] OTHER -> shouldRetry_TestJs(attempt, error)

\* 2^n
RECURSIVE pow2(_)
pow2(n) == IF n <= 0 THEN 1 ELSE 2 * pow2(n - 1)

Min(a, b) == IF a <= b THEN a ELSE b

\* Faulty variant: the cap of Math.min is dropped.
delay_Uncapped(attempt) == BaseDelay * pow2(attempt)

\* Math.min(1000 * Math.pow(2, attempt), 5000)
delay_AppJsx(attempt) == Min(BaseDelay * pow2(attempt), MaxDelay)

\* 1000 * Math.pow(2, attempt)
delay_Part002(attempt) == BaseDelay * pow2(attempt)

\* Math.min(1000 * Math.pow(2, attempt), 5000)
delay_TestJs(attempt) == Min(BaseDelay * pow2(attempt), MaxDelay)

\* The backoff delay of the retry loop.
delay(attempt) ==
    CASE rev = "AppJsx" -> delay_AppJsx(attempt)
      [] rev = "Part002" -> delay_Part002(attempt)
      [] OTHER -> delay_TestJs(attempt)

\* ---------------------------------------------------------- request records
Pending == [state |-> "pending", error |-> NoError, data |-> 0]

\* given: options.headers.Authorization as the caller handed the options in;
\* authorization: options.headers.Authorization of that object now;
\* tokenAtCall: the session token when the wrapper was called;
\* sent: the Authorization header of the fetch of the latest attempt;
\* verify: the request is the '/api/auth/verify' call of verifyToken;
\* handled: what verifyToken did when that call settled.
NewRequest ==
    [st |-> "Created", via |-> "none", attempt |-> 0, phase |-> "idle",
     status |-> 0, error |-> NoError, delay |-> 0, result |-> Pending,
     calls |-> 0, removed |-> 0, settled |-> 0, flipped |-> FALSE,
     timer |-> FALSE, given |-> "", authorization |-> "", tokenAtCall |-> "",
     sent |-> "", verify |-> FALSE, handled |-> "no"]

\* Clients that arm a timer for the attempt; apiCall of part_000 passes a
\* `timeout` option to fetch, which fetch does not know.
armsTimer(r) == r # "Part000"

\* makeRequest up to its first await: the timer is armed (setTimeout) and
\* fetch is called with headers { ..., ...options.headers }.
makeRequestStart(rec) ==
    [rec EXCEPT !.st = "Dispatching", !.phase = "fetch", !.status = 0,
                !.error = NoError, !.delay = 0, !.calls = @ + 1,
                !.timer = armsTimer(rev), !.sent = rec.authorization]

\* Faulty variant: the timer of the attempt is left armed.
clearTimeout_Forgotten(rec) == rec

\* clearTimeout(timeoutId)
clearTimeout(rec) == [rec EXCEPT !.timer = FALSE]

\* Faulty variant: the value of makeRequest is dropped and the promise is
\* fulfilled with undefined.
resolved_Undefined(rec, data) ==
    [rec EXCEPT !.st = "Succeeded", !.phase = "idle", !.status = 0,
                !.result = IF @.state = "pending"
                           THEN [state |-> "resolved", error |-> NoError, data |-> 0]
                           ELSE @,
                !.settled = @ + 1]

\* resolve(result) / return result: the promise is fulfilled.
resolved(rec, data) ==
    [rec EXCEPT !.st = "Succeeded", !.phase = "idle", !.status = 0,
                !.result = IF @.state = "pending"
                           THEN [state |-> "resolved", error |-> NoError, data |-> data]
                           ELSE @,
                !.settled = @ + 1]

\* reject(error) / throw error out of apiCall: the promise is rejected.
rejected(rec, error) ==
    [rec EXCEPT !.st = "FailedTerminal", !.phase = "idle", !.status = 0,
                !.error = error,
                !.result = IF @.state = "pending"
                           THEN [state |-> "rejected", error |-> error, data |-> 0]
                           ELSE @,
                !.settled = @ + 1]

\* The catch block of the retry loop in apiCall.
apiCallCatch(rec, error) ==
    IF shouldRetry(rec.attempt, error)
    THEN [rec EXCEPT !.st = "RetryScheduled", !.phase = "idle", !.status = 0,
                     !.error = error, !.delay = delay(rec.attempt)]
    ELSE rejected(rec, error)

\* ------------------------------------------------------------------- queue
\* Revisions that keep an offline queue; TestJs rejects offline calls.
hasQueue(r) == r \in {"AppJsx", "Part002"}

\* Faulty variant: the test of the isOnline flag is missing.
checksOnline_Never(r) == FALSE

\* Revisions whose client looks at its isOnline flag before it dispatches;
\* request of AppJsxRequest and apiCall of part_000 call fetch whatever the
\* network state.
checksOnline(r) == r \notin {"AppJsxRequest", "Part000"}

\* Faulty variant: the loop test forgets the network flag.
queueLoopCondition_NoOnlineTest(q, online) == Len(q) > 0

\* Faulty variant: the loop test is off by one and leaves the last entry.
queueLoopCondition_OffByOne(q, online) == Len(q) > 1 /\ online

\* while (this.requestQueue.length > 0 && this.isOnline)
queueLoopCondition(q, online) == Len(q) > 0 /\ online

\* Faulty variant: pop() instead of shift(): the newest entry comes off first.
shift_Pop(q) == [head |-> q[Len(q)], rest |-> SubSeq(q, 1, Len(q) - 1)]

\* Faulty variant: the head is read but left on the queue.
shift_Peek(q) == [head |-> Head(q), rest |-> q]

\* this.requestQueue.shift()
shift(q) == [head |-> Head(q), rest |-> Tail(q)]

\* this.requestQueue.push(entry)
push(q, r) == Append(q, r)

\* One pass of processQueue from its loop test to its await: the test and,
\* when it passes, shift() and makeRequest up to the call of fetch.
processQueue(q, rq, online) ==
    IF queueLoopCondition(q, online)
    THEN LET e == shift(q)
         IN [queue |-> e.rest,
             req |-> [rq EXCEPT ![e.head] =
                        makeRequestStart([@ EXCEPT !.removed = @ + 1])],
             disp |-> <<e.head>>]
    ELSE [queue |-> q, req |-> rq, disp |-> <<>>]

\* ------------------------------------------------------------------ session
\* The user of the store when the application starts: null, except in the
\* second application of App.jsx, whose store is persisted with its user and
\* its token.
initialUser(r, tok) ==
    IF r = "AppJsxRequest" /\ tok # "" THEN SessionUser ELSE ""

\* useAppStore.logout of App.jsx:44-53 clears localStorage and the user of
\* the store; the token state of AuthProvider is not written.
logoutToken_AppJsx(tok) == tok

\* setToken(null)
logoutToken_Part002(tok) == ""

\* setToken(null)
logoutToken_TestJs(tok) == ""

\* set({ user: null, token: null, ... })
logoutToken_AppJsxRequest(tok) == ""

\* The session token the wrapper reads after logout().
logoutToken(tok) ==
    CASE rev = "AppJsx" -> logoutToken_AppJsx(tok)
      [] rev = "Part002" -> logoutToken_Part002(tok)
      [] rev = "AppJsxRequest" -> logoutToken_AppJsxRequest(tok)
      [] OTHER -> logoutToken_TestJs(tok)

\* ------------------------------------------------------------ ErrorBoundary
\* this.state = { hasError: false, error: null, retryCount: 0 }; "" stands
\* for null. timers counts the recovery timers that are set and not fired.
NewBoundary == [hasError |-> FALSE, error |-> "", retryCount |-> 0, timers |-> 0]

\* render shows the fallback page instead of the children.
showsFallback(b) == b.hasError /\ b.retryCount >= BoundaryRetryLimit

\* if (this.state.retryCount < 3) setTimeout(..., 2000)
schedulesRecovery(b) == b.retryCount < BoundaryRetryLimit

\* getDerivedStateFromError(error) and componentDidCatch(error, errorInfo)
caught(b, error) ==
    [b EXCEPT !.hasError = TRUE, !.error = error,
              !.timers = IF schedulesRecovery(b) THEN @ + 1 ELSE @]

\* The callback of the recovery timer: setState({ hasError: false,
\* error: null, retryCount: this.state.retryCount + 1 })
recovered(b) ==
    [b EXCEPT !.hasError = FALSE, !.error = "", !.retryCount = @ + 1,
              !.timers = @ - 1]

\* ------------------------------------------------------------------ actions
\* The state after `new ApiClient()`, for one revision and one build.
Constructed(revisions, envs, tokens) ==
    /\ boundary = NewBoundary
    /\ rev \in revisions
    /\ token \in tokens                 \* localStorage 'influencore_token'
    /\ loggedOutToken = ""
    /\ user = initialUser(rev, token)
    /\ \E env \in envs : maxRetries = configMaxRetries(rev, env)
    /\ isOnline \in BOOLEAN              \* navigator.onLine at construction
    /\ networkStatus = isOnline          \* the store reads navigator.onLine too
    /\ requestQueue = <<>>
    /\ req = [r \in Reqs |-> NewRequest]
    /\ enqueued = <<>>
    /\ dispatched = <<>>
    /\ settledOrder = <<>>

\* Queue workload: the revisions that keep an offline queue, NumReqs requests.
Init == Constructed({r \in Revisions : hasQueue(r)}, QueueEnvMaxRetries, {""})

\* Retry workload: every revision and every build, one request.
RetryInit == Constructed(Revisions, EnvMaxRetries, {""})

\* Session workload: every client behind a wrapper, the default build, with
\* or without a stored session, one request.
AuthInit == Constructed(AuthRevisions, {0}, Tokens \cup {""})

\* Faulty variant: processQueue hands the failure of a queued request to the
\* retry policy of apiCall.
Throw_QueueRetries(r, error) ==
    /\ req' = [req EXCEPT ![r] = apiCallCatch(clearTimeout(@), error)]
    /\ UNCHANGED <<requestQueue, dispatched, settledOrder>>

\* makeRequest of request r ends by throwing `error` to its awaiter: its
\* catch block clears the timer, and the retry loop of apiCall, or
\* processQueue, which rejects and loops, takes the error.
Throw(r, error) ==
    IF req[r].via = "direct"
    THEN /\ req' = [req EXCEPT ![r] = apiCallCatch(clearTimeout(@), error)]
         /\ UNCHANGED <<requestQueue, dispatched, settledOrder>>
    ELSE LET pq == processQueue(requestQueue,
                                [req EXCEPT ![r] = rejected(clearTimeout(@), error)],
                                isOnline)
         IN /\ req' = pq.req
            /\ requestQueue' = pq.queue
            /\ dispatched' = dispatched \o pq.disp
            /\ settledOrder' = Append(settledOrder, r)

\* makeRequest of request r ends by returning `data` to its awaiter.
Return(r, data) ==
    IF req[r].via = "direct"
    THEN /\ req' = [req EXCEPT ![r] = resolved(@, data)]
         /\ UNCHANGED <<requestQueue, dispatched, settledOrder>>
    ELSE LET pq == processQueue(requestQueue,
                                [req EXCEPT ![r] = resolved(@, data)], isOnline)
         IN /\ req' = pq.req
            /\ requestQueue' = pq.queue
            /\ dispatched' = dispatched \o pq.disp
            /\ settledOrder' = Append(settledOrder, r)

\* Faulty variant: the test of the network flag is inverted, so that a call
\* made online is queued.
apiCall_InvertedTest(r, rec) ==
    /\ req[r].st = "Created"
    /\ \A o \in Reqs : o < r => req[o].st # "Created"
    /\ IF ~isOnline
       THEN /\ req' = [req EXCEPT ![r] = makeRequestStart([rec EXCEPT !.via = "direct"])]
            /\ UNCHANGED <<requestQueue, enqueued>>
       ELSE /\ requestQueue' = push(requestQueue, r)
            /\ req' = [req EXCEPT ![r] = [rec EXCEPT !.st = "QueuedOffline", !.via = "queue"]]
            /\ enqueued' = Append(enqueued, r)
    /\ UNCHANGED <<boundary, loggedOutToken, token, user, rev, maxRetries, isOnline, networkStatus, dispatched, settledOrder>>

\* apiClient.apiCall (apiClient.request in AppJsxRequest) for request r,
\* whose record `rec` carries the options handed to the client. Requests are
\* numbered in the order the callers issue them.
apiCall(r, rec) ==
    /\ req[r].st = "Created"
    /\ \A o \in Reqs : o < r => req[o].st # "Created"
    /\ IF isOnline \/ ~checksOnline(rev)
       THEN /\ req' = [req EXCEPT ![r] = makeRequestStart([rec EXCEPT !.via = "direct"])]
            /\ UNCHANGED <<requestQueue, enqueued>>
       ELSE IF hasQueue(rev)
       THEN /\ requestQueue' = push(requestQueue, r)
            /\ req' = [req EXCEPT ![r] = [rec EXCEPT !.st = "QueuedOffline", !.via = "queue"]]
            /\ enqueued' = Append(enqueued, r)
       ELSE /\ req' = [req EXCEPT ![r] = rejected([rec EXCEPT !.via = "direct"], OfflineError)]
            /\ UNCHANGED <<requestQueue, enqueued>>
    /\ UNCHANGED <<boundary, loggedOutToken, token, user, rev, maxRetries, isOnline, networkStatus, dispatched, settledOrder>>

\* A caller invokes apiClient.apiCall for request r with options that carry
\* no headers.
ApiCall(r) == apiCall(r, req[r])

\* Faulty variant: the wrapper puts the session token over the header the
\* caller set.
injectAuthorization_Overrides(tok, given) ==
    IF tok # "" THEN "Bearer " \o tok ELSE given

\* if (token && !options.headers?.Authorization)
\*   options.headers = { ...options.headers, Authorization: `Bearer ${token}` };
\* The value is options.headers.Authorization after the statement.
injectAuthorization(tok, given) ==
    IF tok # "" /\ given = "" THEN "Bearer " \o tok ELSE given

\* A caller invokes the apiCall wrapper (AuthProvider.apiCall, useAppStore
\* apiCall) for request r with options whose Authorization header is
\* `given`: the wrapper writes the header into options and calls the client.
WrapperApiCall(r, given) ==
    apiCall(r, [req[r] EXCEPT !.given = given,
                              !.tokenAtCall = token,
                              !.authorization = injectAuthorization(token, given)])

\* login (or register) got its answer with a token and a user: setToken,
\* setUser. The wrapper is built anew with the new token (useCallback).
LoginSucceeds(t) ==
    /\ t # token
    /\ token' = t
    /\ user' = SessionUser
    /\ loggedOutToken' = ""
    /\ UNCHANGED <<boundary, rev, maxRetries, isOnline, networkStatus, requestQueue, req,
                   enqueued, dispatched, settledOrder>>

\* The user signs out: logout() of the application.
Logout ==
    /\ token # "" \/ user # ""
    /\ loggedOutToken' = token
    /\ token' = logoutToken(token)
    /\ user' = ""
    /\ UNCHANGED <<boundary, rev, maxRetries, isOnline, networkStatus, requestQueue, req,
                   enqueued, dispatched, settledOrder>>

\* The headers verifyToken hands in: none through the wrapper; the second
\* application calls apiClient.get(endpoint, token), which builds
\* { Authorization: `Bearer ${token}` }.
verifyGiven(tok) ==
    IF rev = "AppJsxRequest" THEN "Bearer " \o tok ELSE ""

\* verifyToken up to its await: if (!token) return; then the verify call.
VerifyToken(r) ==
    /\ token # ""
    /\ apiCall(r, [req[r] EXCEPT !.verify = TRUE,
                                 !.given = verifyGiven(token),
                                 !.tokenAtCall = token,
                                 !.authorization =
                                     injectAuthorization(token, verifyGiven(token))])

\* if (data.user) setUser(data.user) else logout();  catch: logout()
verifyOutcome_AppJsx(state, withUser) ==
    IF state = "resolved" /\ withUser THEN "setUser" ELSE "logout"

\* the same, in part_002:310-325
verifyOutcome_Part002(state, withUser) ==
    IF state = "resolved" /\ withUser THEN "setUser" ELSE "logout"

\* the same, in test.js:249-258
verifyOutcome_TestJs(state, withUser) ==
    IF state = "resolved" /\ withUser THEN "setUser" ELSE "logout"

\* setUser(response.user);  catch: logout()
verifyOutcome_AppJsxRequest(state, withUser) ==
    IF state = "resolved" THEN "setUser" ELSE "logout"

\* What verifyToken calls when its verify call has settled in `state`, the
\* decoded answer carrying a user or not.
verifyOutcome(state, withUser) ==
    CASE rev = "AppJsx" -> verifyOutcome_AppJsx(state, withUser)
      [] rev = "Part002" -> verifyOutcome_Part002(state, withUser)
      [] rev = "AppJsxRequest" -> verifyOutcome_AppJsxRequest(state, withUser)
      [] OTHER -> verifyOutcome_TestJs(state, withUser)

\* The continuation of verifyToken after its await: the verify call of
\* request r has settled, and its answer, when there is one, carries a user
\* or not.
VerifySettled(r, withUser) ==
    /\ req[r].verify
    /\ req[r].handled = "no"
    /\ req[r].result.state # "pending"
    /\ LET outcome == verifyOutcome(req[r].result.state, withUser)
       IN /\ req' = [req EXCEPT ![r] = [@ EXCEPT !.handled = outcome]]
          /\ IF outcome = "logout"
             THEN /\ loggedOutToken' = token
                  /\ token' = logoutToken(token)
                  /\ user' = ""
             ELSE /\ user' = IF withUser THEN SessionUser ELSE ""
                  /\ UNCHANGED <<boundary, loggedOutToken, token>>
    /\ UNCHANGED <<boundary, rev, maxRetries, isOnline, networkStatus, requestQueue,
                   enqueued, dispatched, settledOrder>>

\* The 'online' event of window, which the browser fires when
\* navigator.onLine turns true.
Online ==
    /\ ~isOnline
    /\ isOnline' = TRUE
    /\ networkStatus' = IF hasQueue(rev) THEN TRUE ELSE networkStatus
    /\ IF hasQueue(rev)
       THEN LET marked == [r \in Reqs |->
                             IF req[r].st = "QueuedOffline"
                             THEN [req[r] EXCEPT !.flipped = TRUE] ELSE req[r]]
                pq == processQueue(requestQueue, marked, TRUE)
            IN /\ req' = pq.req
               /\ requestQueue' = pq.queue
               /\ dispatched' = dispatched \o pq.disp
       ELSE UNCHANGED <<req, requestQueue, dispatched>>
    /\ UNCHANGED <<boundary, loggedOutToken, token, user, rev, maxRetries, enqueued, settledOrder>>

\* Faulty variant: the 'offline' listener does not tell the store.
Offline_NoStoreSync ==
    /\ isOnline
    /\ isOnline' = FALSE
    /\ UNCHANGED <<boundary, loggedOutToken, token, user, rev, maxRetries, networkStatus,
                   requestQueue, req, enqueued, dispatched, settledOrder>>

\* The 'offline' event of window.
Offline ==
    /\ isOnline
    /\ isOnline' = FALSE
    /\ networkStatus' = IF hasQueue(rev) THEN FALSE ELSE networkStatus
    /\ UNCHANGED <<boundary, loggedOutToken, token, user, rev, maxRetries, requestQueue, req, enqueued, dispatched, settledOrder>>

\* fetch resolves with a successful response: the timer is cleared and
\* makeRequest awaits response.json().
FetchResolvesOk(r) ==
    /\ req[r].phase = "fetch"
    /\ req' = [req EXCEPT ![r] = clearTimeout([@ EXCEPT !.phase = "body", !.status = 200])]
    /\ UNCHANGED <<boundary, loggedOutToken, token, user, rev, maxRetries, isOnline, networkStatus, requestQueue,
                   enqueued, dispatched, settledOrder>>

\* fetch resolves with a non-success status: the timer is cleared and
\* makeRequest awaits response.json() of the error payload.
FetchResolvesError(r, status) ==
    /\ req[r].phase = "fetch"
    /\ req' = [req EXCEPT ![r] =
                 clearTimeout([@ EXCEPT !.phase = "errbody", !.status = status])]
    /\ UNCHANGED <<boundary, loggedOutToken, token, user, rev, maxRetries, isOnline, networkStatus, requestQueue,
                   enqueued, dispatched, settledOrder>>

\* fetch rejects with a network failure.
FetchRejects(r, msg) ==
    /\ req[r].phase = "fetch"
    /\ Throw(r, makeRequestCatch(NetworkError(msg)))
    /\ UNCHANGED <<boundary, loggedOutToken, token, user, rev, maxRetries, isOnline, networkStatus, enqueued>>

\* The timer of the attempt fires: controller.abort() rejects the fetch.
\* A timer that was cleared never fires.
TimeoutFires(r) ==
    /\ req[r].timer
    /\ req[r].phase = "fetch"
    /\ Throw(r, makeRequestCatch(AbortError))
    /\ UNCHANGED <<boundary, loggedOutToken, token, user, rev, maxRetries, isOnline, networkStatus, enqueued>>

\* response.json() of a successful response yields the data.
BodyResolves(r) ==
    /\ req[r].phase = "body"
    /\ Return(r, req[r].calls)
    /\ UNCHANGED <<boundary, loggedOutToken, token, user, rev, maxRetries, isOnline, networkStatus, enqueued>>

\* response.json() of a successful response fails to parse.
BodyRejects(r) ==
    /\ req[r].phase = "body"
    /\ Throw(r, makeRequestCatch(ParseError))
    /\ UNCHANGED <<boundary, loggedOutToken, token, user, rev, maxRetries, isOnline, networkStatus, enqueued>>

\* Faulty variant: the client ends the session when the answer is a 401.
ErrorBodyResolves_LogsOut(r, payloadMessage) ==
    /\ req[r].phase = "errbody"
    /\ Throw(r, makeRequestCatch(HttpError(req[r].status, payloadMessage)))
    /\ token' = IF req[r].status = 401 THEN "" ELSE token
    /\ user' = IF req[r].status = 401 THEN "" ELSE user
    /\ UNCHANGED <<boundary, loggedOutToken, rev, maxRetries, isOnline, networkStatus, enqueued>>

\* response.json() of an error response ends (with the payload, or with {}
\* from the .catch), and makeRequest throws the Error built from it.
ErrorBodyResolves(r, payloadMessage) ==
    /\ req[r].phase = "errbody"
    /\ Throw(r, makeRequestCatch(HttpError(req[r].status, payloadMessage)))
    /\ UNCHANGED <<boundary, loggedOutToken, token, user, rev, maxRetries, isOnline, networkStatus, enqueued>>

\* await response.json().catch(() => ({})) of an unparsable error body gives
\* {}, whose message is undefined; part_000 awaits response.json() bare and
\* the SyntaxError goes to its catch block.
errorBodyUnparsable(status) ==
    IF rev = "Part000" THEN ParseError ELSE HttpError(status, "")

\* response.json() of an error response fails: the body is absent or is not
\* JSON.
ErrorBodyRejects(r) ==
    /\ req[r].phase = "errbody"
    /\ Throw(r, makeRequestCatch(errorBodyUnparsable(req[r].status)))
    /\ UNCHANGED <<boundary, loggedOutToken, token, user, rev, maxRetries, isOnline, networkStatus, enqueued>>

\* Faulty variant: the callback of the backoff timer does not call resolve,
\* so the awaited promise stays pending.
BackoffElapsed_NeverResolves(r) ==
    /\ req[r].st = "RetryScheduled"
    /\ UNCHANGED vars

\* The backoff timer of the retry loop fires: `continue` runs attempt++, the
\* loop test and the next makeRequest (the loop falls through to an
\* undefined return value when the test fails).
BackoffElapsed(r) ==
    /\ req[r].st = "RetryScheduled"
    /\ LET next == nextAttempt(req[r].attempt)
       IN req' = [req EXCEPT ![r] =
                    IF loopCondition(next)
                    THEN makeRequestStart([@ EXCEPT !.attempt = next])
                    ELSE resolved([@ EXCEPT !.attempt = next], 0)]
    /\ UNCHANGED <<boundary, loggedOutToken, token, user, rev, maxRetries, isOnline, networkStatus, requestQueue,
                   enqueued, dispatched, settledOrder>>

Next ==
    \/ \E r \in Reqs : ApiCall(r)
    \/ Online
    \/ Offline
    \/ \E r \in Reqs : FetchResolvesOk(r)
    \/ \E r \in Reqs, status \in QueueErrorStatuses : FetchResolvesError(r, status)
    \/ \E r \in Reqs, msg \in NetworkFailureMessages : FetchRejects(r, msg)
    \/ \E r \in Reqs : TimeoutFires(r)
    \/ \E r \in Reqs : BodyResolves(r)
    \/ \E r \in Reqs : BodyRejects(r)
    \/ \E r \in Reqs, m \in PayloadMessages : ErrorBodyResolves(r, m)
    \/ \E r \in Reqs : BackoffElapsed(r)

Spec == Init /\ [][Next]_vars

\* The retry workload issues the first request only.
RetryNext ==
    \/ ApiCall(1)
    \/ Online
    \/ Offline
    \/ \E r \in Reqs : FetchResolvesOk(r)
    \/ \E r \in Reqs, status \in ErrorStatuses : FetchResolvesError(r, status)
    \/ \E r \in Reqs, msg \in NetworkFailureMessages : FetchRejects(r, msg)
    \/ \E r \in Reqs : TimeoutFires(r)
    \/ \E r \in Reqs : BodyResolves(r)
    \/ \E r \in Reqs : BodyRejects(r)
    \/ \E r \in Reqs, m \in PayloadMessages : ErrorBodyResolves(r, m)
    \/ \E r \in Reqs : BackoffElapsed(r)

RetrySpec == RetryInit /\ [][RetryNext]_vars

\* The session workload issues the first request through the wrapper, and
\* the session token changes whenever a login succeeds.
AuthNext ==
    \/ \E given \in CallerAuthorizations : WrapperApiCall(1, given)
    \/ \E t \in Tokens : LoginSucceeds(t)
    \/ Online
    \/ Offline
    \/ \E r \in Reqs : FetchResolvesOk(r)
    \/ \E r \in Reqs, status \in QueueErrorStatuses : FetchResolvesError(r, status)
    \/ \E r \in Reqs, msg \in NetworkFailureMessages : FetchRejects(r, msg)
    \/ \E r \in Reqs : TimeoutFires(r)
    \/ \E r \in Reqs : BodyResolves(r)
    \/ \E r \in Reqs : BodyRejects(r)
    \/ \E r \in Reqs, m \in PayloadMessages : ErrorBodyResolves(r, m)
    \/ \E r \in Reqs : BackoffElapsed(r)

AuthSpec == AuthInit /\ [][AuthNext]_vars

\* The session workload with the user signing out as well.
SessionNext ==
    \/ AuthNext
    \/ Logout

SessionSpec == AuthInit /\ [][SessionNext]_vars

\* The verification workload: the one request is the verify call of
\* verifyToken, while the user may sign in and out.
VerifyNext ==
    \/ VerifyToken(1)
    \/ \E r \in Reqs, withUser \in BOOLEAN : VerifySettled(r, withUser)
    \/ \E t \in Tokens : LoginSucceeds(t)
    \/ Logout
    \/ Online
    \/ Offline
    \/ \E r \in Reqs : FetchResolvesOk(r)
    \/ \E r \in Reqs, status \in QueueErrorStatuses : FetchResolvesError(r, status)
    \/ \E r \in Reqs, msg \in NetworkFailureMessages : FetchRejects(r, msg)
    \/ \E r \in Reqs : TimeoutFires(r)
    \/ \E r \in Reqs : BodyResolves(r)
    \/ \E r \in Reqs : BodyRejects(r)
    \/ \E r \in Reqs, m \in PayloadMessages : ErrorBodyResolves(r, m)
    \/ \E r \in Reqs : BackoffElapsed(r)

VerifySpec == AuthInit /\ [][VerifyNext]_vars

\* A child throws `error` while it renders and ErrorBoundary catches it.
\* Children render, and can throw, whenever the fallback page is not shown.
CaughtError(error) ==
    /\ ~showsFallback(boundary)
    /\ schedulesRecovery(boundary) => boundary.timers < MaxPendingTimers
    /\ boundary' = caught(boundary, error)
    /\ UNCHANGED <<loggedOutToken, token, user, rev, maxRetries, isOnline,
                   networkStatus, requestQueue, req, enqueued, dispatched,
                   settledOrder>>

\* A recovery timer fires, 2000 ms after it was set.
RecoveryTimerFires ==
    /\ boundary.timers > 0
    /\ boundary' = recovered(boundary)
    /\ UNCHANGED <<loggedOutToken, token, user, rev, maxRetries, isOnline,
                   networkStatus, requestQueue, req, enqueued, dispatched,
                   settledOrder>>

\* The ErrorBoundary workload: children that throw, timers that fire, and
\* the network events of the page.
BoundaryInit == Constructed({"AppJsx", "TestJs"}, {0}, {""})

BoundaryNext ==
    \/ \E error \in RenderErrors : CaughtError(error)
    \/ RecoveryTimerFires
    \/ Online
    \/ Offline

BoundarySpec == BoundaryInit /\ [][BoundaryNext]_vars

\* Decoding workload: every client, the default build, one request, and a
\* backend whose error bodies may be unparsable.
DecodeInit == Constructed(DecodeRevisions, {0}, {""})

DecodeNext ==
    \/ ApiCall(1)
    \/ Online
    \/ Offline
    \/ \E r \in Reqs : FetchResolvesOk(r)
    \/ \E r \in Reqs, status \in ErrorStatuses : FetchResolvesError(r, status)
    \/ \E r \in Reqs, msg \in NetworkFailureMessages : FetchRejects(r, msg)
    \/ \E r \in Reqs : TimeoutFires(r)
    \/ \E r \in Reqs : BodyResolves(r)
    \/ \E r \in Reqs : BodyRejects(r)
    \/ \E r \in Reqs, m \in PayloadMessages : ErrorBodyResolves(r, m)
    \/ \E r \in Reqs : ErrorBodyRejects(r)
    \/ \E r \in Reqs : BackoffElapsed(r)

DecodeSpec == DecodeInit /\ [][DecodeNext]_vars

TypeOK ==
    /\ boundary.hasError \in BOOLEAN
    /\ boundary.error \in RenderErrors \cup {""}
    /\ boundary.retryCount \in 0..(BoundaryRetryLimit + MaxPendingTimers)
    /\ boundary.timers \in 0..MaxPendingTimers
    /\ loggedOutToken \in Tokens \cup {""}
    /\ token \in Tokens \cup {""}
    /\ user \in {"", SessionUser}
    /\ rev \in DecodeRevisions
    /\ maxRetries \in 0..(MaxEnvRetries + 1)
    /\ isOnline \in BOOLEAN
    /\ networkStatus \in BOOLEAN
    /\ \A i \in 1..Len(requestQueue) : requestQueue[i] \in Reqs
    /\ \A r \in Reqs : req[r].st \in {"Created", "QueuedOffline", "Dispatching",
                                      "RetryScheduled", "Succeeded", "FailedTerminal"}

\* ---------------------------------------------------------------- fairness
\* A step of the attempt of request r that is in flight.
AttemptStep(r) ==
    \/ FetchResolvesOk(r)
    \/ \E status \in QueueErrorStatuses : FetchResolvesError(r, status)
    \/ \E msg \in NetworkFailureMessages : FetchRejects(r, msg)
    \/ TimeoutFires(r)
    \/ BodyResolves(r)
    \/ BodyRejects(r)
    \/ \E m \in PayloadMessages : ErrorBodyResolves(r, m)

\* The queue workload with every request issued while offline.
LiveNext ==
    \/ \E r \in Reqs : ~isOnline /\ ApiCall(r)
    \/ Online
    \/ Offline
    \/ \E r \in Reqs : AttemptStep(r)

\* Every attempt in flight goes on to its end: the server answers or the
\* timer fires, and the event loop runs the continuation that is ready.
LiveSpec ==
    /\ Init
    /\ [][LiveNext]_vars
    /\ \A r \in Reqs : WF_vars(AttemptStep(r))

\* A step of the attempt of request r of the retry workload.
RetryAttemptStep(r) ==
    \/ FetchResolvesOk(r)
    \/ \E status \in ErrorStatuses : FetchResolvesError(r, status)
    \/ \E msg \in NetworkFailureMessages : FetchRejects(r, msg)
    \/ TimeoutFires(r)
    \/ BodyResolves(r)
    \/ BodyRejects(r)
    \/ \E m \in PayloadMessages : ErrorBodyResolves(r, m)

\* The retry workload with its timers and its server fair: every attempt in
\* flight gets its answer or its timeout, and every backoff timer fires.
RetryLiveSpec ==
    /\ RetryInit
    /\ [][RetryNext]_vars
    /\ \A r \in Reqs : WF_vars(RetryAttemptStep(r)) /\ WF_vars(BackoffElapsed(r))

\* ------------------------------------------------------------------ helpers
Terminal == {"Succeeded", "FailedTerminal"}

\* Position of request r in sequence s (0 when absent).
IndexOf(s, r) ==
    IF \E i \in 1..Len(s) : s[i] = r
    THEN CHOOSE i \in 1..Len(s) : s[i] = r
    ELSE 0

\* Sequence s starts sequence t.
IsPrefix(s, t) ==
    /\ Len(s) <= Len(t)
    /\ \A i \in 1..Len(s) : s[i] = t[i]

\* ------------------------------------------------------------------- claims

\* C1: a request accepted while offline is neither dispatched nor settled
\* before an offline-to-online transition has happened since it was pushed,
\* and no step takes an entry off requestQueue while isOnline is false.
C1_NoDispatchWhileOffline ==
    [][ /\ (Len(requestQueue') < Len(requestQueue) => isOnline')
        /\ \A r \in Reqs :
              (req'[r].via = "queue" /\ ~req'[r].flipped) =>
                  /\ req'[r].calls = 0
                  /\ req'[r].settled = 0
                  /\ req'[r].result.state = "pending"
                  /\ req'[r].st = "QueuedOffline" ]_vars

\* C1 witness: a request pushed while offline was dispatched after the flip
\* while a later request, pushed during a second offline period, still waits.
C1_Witness ==
    \E a, b \in Reqs :
        /\ req[a].via = "queue" /\ req[a].flipped /\ req[a].calls = 1
        /\ req[b].via = "queue" /\ ~req[b].flipped /\ req[b].st = "QueuedOffline"
        /\ ~isOnline

\* C2: queued requests are dispatched in the order they were pushed: the
\* dispatch history is a prefix of the push history.
C2_FifoDispatch == IsPrefix(dispatched, enqueued)

\* C2 witness: two queued requests were dispatched by two processQueue
\* invocations (the first is still in flight when the second is dispatched).
C2_Witness ==
    /\ Len(dispatched) >= 2
    /\ req[dispatched[1]].st = "Dispatching"
    /\ req[dispatched[2]].st = "Dispatching"

\* C3: queued requests settle in the order they were pushed: whenever a
\* queued request has settled, every request pushed before it settled earlier.
C3_SettleInOrder ==
    \A j \in 1..Len(settledOrder) :
        \A a \in Reqs :
            (IndexOf(enqueued, a) > 0
             /\ IndexOf(enqueued, a) < IndexOf(enqueued, settledOrder[j]))
                => (IndexOf(settledOrder, a) > 0 /\ IndexOf(settledOrder, a) < j)

\* C4: every entry pushed on requestQueue is on it at most once, comes off
\* it at most once, is dispatched exactly once when it comes off, and every
\* promise (queued or direct) is settled at most once.
C4_NoSkipNoDouble ==
    \A r \in Reqs :
        /\ req[r].removed <= 1
        /\ req[r].settled <= 1
        /\ Cardinality({i \in 1..Len(requestQueue) : requestQueue[i] = r}) <= 1
        /\ req[r].via = "queue" =>
              /\ req[r].calls = req[r].removed
              /\ (req[r].removed = 0) = (\E i \in 1..Len(requestQueue) : requestQueue[i] = r)
              /\ req[r].settled = 1 => req[r].removed = 1

\* C4 witness: two queued requests, drained by overlapping processQueue
\* invocations, have both settled.
C4_Witness ==
    /\ Len(settledOrder) >= 2
    /\ settledOrder[1] > settledOrder[2]
    /\ \A r \in Reqs : req[r].via = "queue" => req[r].settled = 1

\* C5: when the network ends up online for good and attempts complete, every
\* request waiting on the queue is eventually settled.
C5_QueueDrains ==
    (<>[]isOnline) =>
        \A r \in Reqs : (req[r].st = "QueuedOffline") ~> (req[r].st \in Terminal)

\* C5 witness: every request went through the queue, the queue is empty and
\* all are settled, one of them rejected.
C5_Witness ==
    /\ isOnline
    /\ requestQueue = <<>>
    /\ \A r \in Reqs : req[r].via = "queue" /\ req[r].st \in Terminal
    /\ \E r \in Reqs : req[r].st = "FailedTerminal"

\* C6: a directly dispatched request makes at most maxRetries + 1 calls of
\* makeRequest.
C6_BoundedAttempts ==
    \A r \in Reqs : req[r].via = "direct" => req[r].calls <= maxRetries + 1

\* C6 witness: with the default of 3 retries a request failed after 4 calls.
C6_Witness ==
    \E r \in Reqs :
        /\ maxRetries = DefaultMaxRetries
        /\ req[r].via = "direct"
        /\ req[r].st = "FailedTerminal"
        /\ req[r].calls = DefaultMaxRetries + 1

\* min(1000 * 2^(n-1), 5000) written out: 1000, 2000, 4000, then 5000.
BackoffTable(n) ==
    CASE n = 1 -> 1000
      [] n = 2 -> 2000
      [] n = 3 -> 4000
      [] OTHER -> 5000

\* C7: the delay waited before the n-th retry is min(1000 * 2^(n-1), 5000);
\* the n-th retry is the one scheduled after n calls of makeRequest.
C7_BackoffDelay ==
    \A r \in Reqs :
        req[r].st = "RetryScheduled" =>
            /\ req[r].calls >= 1
            /\ req[r].delay = BackoffTable(req[r].calls)

\* C7 witness: a fifth retry is scheduled, with the capped delay.
C7_Witness ==
    \E r \in Reqs :
        req[r].st = "RetryScheduled" /\ req[r].calls = 5 /\ req[r].delay = MaxDelay

\* C8: when the timer of an attempt of a direct request fires, the attempt
\* ends and the retry loop schedules the next attempt if retries remain, and
\* rejects with the timeout only when none remain.
C8_TimeoutIsRetried ==
    [][ \A r \in Reqs :
          (/\ req[r].via = "direct"
           /\ req[r].phase = "fetch"
           /\ req'[r].error.cause = "timeout")
          => /\ req'[r].phase = "idle"
             /\ IF req[r].attempt < maxRetries
                THEN req'[r].st = "RetryScheduled"
                ELSE req'[r].st = "FailedTerminal" ]_vars

\* C9: an answer of the 401, 409 or 422 class is never retried: no backoff
\* is ever scheduled for the error of such an answer.
C9_ClientErrorNotRetried ==
    \A r \in Reqs :
        req[r].error.status \in {401, 409, 422} =>
            /\ req[r].st # "RetryScheduled"
            /\ req[r].delay = 0

\* C10: no attempt is started while the network state is offline.
C10_NoAttemptWhileOffline ==
    [][ \A r \in Reqs : req'[r].calls > req[r].calls => isOnline' ]_vars

\* The failures the retry policy is for: a timeout and a network failure.
RetryableCauses == {"timeout", "network"}

\* C11: a direct request that is rejected with a retryable failure (the
\* attempts before it were retried) is rejected after the last allowed
\* attempt, call maxRetries + 1, and the promise carries the error of that
\* attempt.
C11_RejectsWithLastError ==
    \A r \in Reqs :
        (/\ req[r].via = "direct"
         /\ req[r].st = "FailedTerminal"
         /\ req[r].error.cause \in RetryableCauses)
        => /\ req[r].calls = maxRetries + 1
           /\ req[r].result = [state |-> "rejected", error |-> req[r].error, data |-> 0]

\* C12: an attempt of a direct request that fails with a retryable failure
\* while retries remain is followed by a backoff and the next attempt, and
\* the attempt that succeeds after N such failures resolves the promise with
\* its own data after N + 1 calls of makeRequest.
C12_RetryThenSuccess ==
    [][ \A r \in Reqs :
          req[r].via = "direct" =>
            /\ (/\ req[r].phase = "fetch"
                /\ req'[r].phase = "idle"
                /\ req'[r].error.cause \in RetryableCauses
                /\ req[r].attempt < maxRetries)
               => req'[r].st = "RetryScheduled"
            /\ (req[r].phase = "body" /\ req'[r].st = "Succeeded")
               => /\ req'[r].calls = req[r].attempt + 1
                  /\ req'[r].result =
                        [state |-> "resolved", error |-> NoError,
                         data |-> req[r].attempt + 1] ]_vars

\* An attempt of request r is in flight: makeRequest awaits fetch or
\* response.json().
InFlight(r) == req[r].phase \in {"fetch", "body", "errbody"}

\* C13: the timer of an attempt is armed for as long as the attempt is in
\* flight, whether the headers or the body are outstanding, so the timer
\* ends every attempt that gets no answer.
C13_TimerGuardsWholeAttempt ==
    \A r \in Reqs : InFlight(r) => req[r].timer

\* C14: with fair timers and a fair server, a direct request that is being
\* attempted or waits for its backoff eventually resolves or rejects.
C14_DirectTerminates ==
    \A r \in Reqs :
        (req[r].via = "direct" /\ req[r].st \in {"Dispatching", "RetryScheduled"})
            ~> (req[r].st \in Terminal)

\* C14 witness: a direct request resolved on its third attempt, after two
\* backoff waits.
C14_Witness ==
    \E r \in Reqs :
        /\ req[r].via = "direct"
        /\ req[r].st = "Succeeded"
        /\ req[r].calls = 3
        /\ req[r].attempt = 2

\* The steps of the request state machine.
Transitions ==
    {<<"Created", "Dispatching">>, <<"Dispatching", "Succeeded">>,
     <<"Dispatching", "RetryScheduled">>, <<"RetryScheduled", "Dispatching">>,
     <<"QueuedOffline", "Dispatching">>, <<"Dispatching", "FailedTerminal">>,
     <<"Created", "QueuedOffline">>}

\* Request r is on requestQueue.
OnQueue(q, r) == \E i \in 1..Len(q) : q[i] = r

\* C15: every change of the state of a request is a step of the state
\* machine; a request that is Succeeded or FailedTerminal is not on the queue
\* and nothing of it changes any more: no attempt, no backoff, no new result.
C15_TerminalAbsorbing ==
    [][ \A r \in Reqs :
          /\ req'[r].st # req[r].st => <<req[r].st, req'[r].st>> \in Transitions
          /\ req[r].st \in Terminal => req'[r] = req[r]
          /\ req'[r].st \in Terminal => ~OnQueue(requestQueue', r) ]_vars

\* C15 witness: a direct request has resolved after a retry and a queued
\* request has been rejected, and the client went on working after that: the
\* network state has changed since.
C15_Witness ==
    \E a, b \in Reqs :
        /\ req[a].via = "direct" /\ req[a].st = "Succeeded" /\ req[a].calls = 2
        /\ req[b].via = "queue" /\ req[b].st = "FailedTerminal"
        /\ ~isOnline

\* `Bearer ${token}`
Bearer(tok) == "Bearer " \o tok

\* C16: every attempt of a request whose caller set no Authorization header
\* (the first one, a retry, the dispatch of a queued request) sends the
\* bearer header of the session token as it is when the attempt starts.
C16_TokenAtAttemptTime ==
    [][ \A r \in Reqs :
          (/\ req'[r].calls > req[r].calls
           /\ req'[r].given = ""
           /\ token' # "")
          => req'[r].sent = Bearer(token') ]_vars

\* C17: the request sent for a call of the wrapper carries the Authorization
\* header the caller set, when the caller set one; else the bearer header of
\* the session token read by the wrapper, when there is a token; else none.
C17_HeaderInjection ==
    \A r \in Reqs :
        req[r].calls > 0 =>
            /\ req[r].given # "" => req[r].sent = req[r].given
            /\ (req[r].given = "" /\ req[r].tokenAtCall # "")
                  => req[r].sent = Bearer(req[r].tokenAtCall)
            /\ (req[r].given = "" /\ req[r].tokenAtCall = "") => req[r].sent = ""

\* C17 witness: a call made with a session token and without a header of the
\* caller's is on its second attempt, with the bearer header of that token.
C17_Witness ==
    \E r \in Reqs :
        /\ req[r].given = ""
        /\ req[r].tokenAtCall = "t1"
        /\ req[r].calls = 2
        /\ req[r].phase = "fetch"
        /\ req[r].sent = "Bearer t1"

\* C18: the options object of a request has, after the call, after every
\* retry and after a queued dispatch, the headers it had when the caller
\* handed it in.
C18_DescriptorNotMutated ==
    \A r \in Reqs :
        req[r].st # "Created" => req[r].authorization = req[r].given

\* C19: when the body of the successful answer to the first attempt of a
\* direct request has been decoded, the promise resolves with that data:
\* one call of makeRequest, no backoff, and the queue is not touched.
C19_FirstAttemptSuccess ==
    [][ \A r \in Reqs :
          (/\ req[r].via = "direct"
           /\ req[r].calls = 1
           /\ req[r].phase = "body"
           /\ req'[r].phase = "idle"
           /\ req'[r].error.cause # "parse")
          => /\ req'[r].st = "Succeeded"
             /\ req'[r].result = [state |-> "resolved", error |-> NoError, data |-> 1]
             /\ req'[r].calls = 1
             /\ req'[r].attempt = 0
             /\ req'[r].delay = 0
             /\ requestQueue' = requestQueue
             /\ ~OnQueue(enqueued', r) ]_vars

\* C19 witness: a request issued online has resolved with the data of its
\* first attempt.
C19_Witness ==
    \E r \in Reqs :
        /\ req[r].via = "direct"
        /\ req[r].st = "Succeeded"
        /\ req[r].calls = 1
        /\ req[r].result.data = 1
        /\ req[r].delay = 0
        /\ requestQueue = <<>>

\* A step of the client: a request, the queue or the network flag changes.
ClientStep ==
    \/ req' # req
    \/ requestQueue' # requestQueue
    \/ isOnline' # isOnline

\* C20: no step of the client (a call, an attempt and its outcome, a retry,
\* a queue dispatch, a network event) changes the session token or the user.
C20_ClientKeepsSession ==
    [][ ClientStep => (token' = token /\ user' = user) ]_vars

\* C20 witness: a call made with the session token was answered 401 and its
\* promise is rejected, and the token and the user are still in place.
C20_Witness ==
    \E r \in Reqs :
        /\ req[r].result.state = "rejected"
        /\ req[r].result.error.status = 401
        /\ req[r].tokenAtCall # ""
        /\ token = req[r].tokenAtCall
        /\ user = SessionUser

\* C21: in the revision without a queue, apiCall invoked while offline
\* rejects with the 'No internet connection' error; a request rejected that
\* way has made no call of makeRequest and has no backoff scheduled.
C21_OfflineRejects ==
    [][ \A r \in Reqs :
          /\ (/\ rev = "TestJs"
              /\ ~isOnline
              /\ req[r].st = "Created"
              /\ req'[r].st # "Created")
             => /\ req'[r].st = "FailedTerminal"
                /\ req'[r].result =
                      [state |-> "rejected", error |-> OfflineError, data |-> 0]
          /\ req'[r].result.error.cause = "offline"
             => /\ req'[r].calls = 0
                /\ req'[r].phase = "idle"
                /\ req'[r].delay = 0
                /\ ~req'[r].timer
                /\ req'[r].st = "FailedTerminal" ]_vars

\* C21 witness: a call made offline was rejected, and the network has come
\* back since without any attempt being made for it.
C21_Witness ==
    \E r \in Reqs :
        /\ rev = "TestJs"
        /\ req[r].result.state = "rejected"
        /\ req[r].result.error.message = "No internet connection"
        /\ req[r].calls = 0
        /\ isOnline

\* The generic message of a non-success status: "HTTP {status}", with or
\* without the reason phrase after it.
GenericMessage(status, message) == includes(message, "HTTP " \o statusString(status))

\* C22: a successful status yields the parsed body; a non-success status
\* yields an error whose message is the message of the error payload when it
\* has one, and the generic message when the payload has none or the body
\* is absent or unparsable.
C22_ResponseDecoding ==
    [][ \A r \in Reqs :
          /\ (req[r].phase = "body" /\ req'[r].st = "Succeeded")
             => req'[r].result =
                   [state |-> "resolved", error |-> NoError, data |-> req[r].calls]
          /\ \A m \in PayloadMessages :
                ErrorBodyResolves(r, m)
                => IF m # ""
                   THEN req'[r].error.message = m
                   ELSE GenericMessage(req[r].status, req'[r].error.message)
          /\ ErrorBodyRejects(r)
             => GenericMessage(req[r].status, req'[r].error.message) ]_vars

\* C23: a request released from the queue is attempted once: it makes at
\* most one call of makeRequest, no backoff is ever scheduled for it, and a
\* timeout or network failure of its attempt rejects its promise with that
\* error and does not put it back on the queue.
C23_QueuedAttemptedOnce ==
    \A r \in Reqs :
        req[r].via = "queue" =>
            /\ req[r].calls <= 1
            /\ req[r].st # "RetryScheduled"
            /\ req[r].delay = 0
            /\ req[r].error.cause \in RetryableCauses =>
                  /\ req[r].st = "FailedTerminal"
                  /\ req[r].result =
                        [state |-> "rejected", error |-> req[r].error, data |-> 0]
                  /\ ~OnQueue(requestQueue, r)

\* C23 witness: the one attempt of a queued request timed out with retries
\* left in the build, and the request is rejected while the network is up.
C23_Witness ==
    \E r \in Reqs :
        /\ req[r].via = "queue"
        /\ req[r].st = "FailedTerminal"
        /\ req[r].error.cause = "timeout"
        /\ req[r].calls = 1
        /\ maxRetries >= 1
        /\ isOnline

\* C24: at most one request released from the queue is in flight at a time.
C24_OneQueuedInFlight ==
    Cardinality({r \in Reqs : req[r].via = "queue" /\ InFlight(r)}) <= 1

\* C25: a request issued through the wrapper after a logout, and before the
\* next login, is issued with an empty session token and does not carry the
\* bearer header of the session that was logged out.
C25_NoTokenAfterLogout ==
    [][ \A r \in Reqs :
          (/\ req[r].st = "Created"
           /\ req'[r].st # "Created"
           /\ loggedOutToken # "")
          => /\ req'[r].tokenAtCall = ""
             /\ req'[r].authorization # Bearer(loggedOutToken) ]_vars

\* C26: a request is put on requestQueue only by its own apiCall invoked
\* while isOnline is false; a request dispatched while online is never on
\* the queue, whatever the network does during its attempts and backoffs.
C26_DirectNeverQueued ==
    [][ \A r \in Reqs :
          /\ (OnQueue(requestQueue', r) /\ ~OnQueue(requestQueue, r))
             => (~isOnline /\ req[r].st = "Created")
          /\ req'[r].via = "direct"
             => /\ ~OnQueue(requestQueue', r)
                /\ ~OnQueue(enqueued', r)
                /\ req'[r].st # "QueuedOffline" ]_vars

\* C26 witness: a request dispatched online has been retried and has ended
\* while the network is offline and another request waits on the queue.
C26_Witness ==
    \E a, b \in Reqs :
        /\ req[a].via = "direct"
        /\ req[a].calls >= 2
        /\ req[a].st \in Terminal
        /\ ~isOnline
        /\ requestQueue = <<b>>

\* C27: when the verify call of verifyToken has settled, verifyToken sets
\* the user if the call resolved with an answer that carries a user, and
\* invokes logout in every other case: any rejection, and an answer without
\* a user.
C27_VerifyLogsOut ==
    [][ \A r \in Reqs, withUser \in BOOLEAN :
          VerifySettled(r, withUser)
          => IF req[r].result.state = "resolved" /\ withUser
             THEN /\ req'[r].handled = "setUser"
                  /\ user' = SessionUser
                  /\ token' = token
             ELSE /\ req'[r].handled = "logout"
                  /\ user' = ""
                  /\ loggedOutToken' = token ]_vars

\* C28: after every step ApiClient.isOnline equals the networkStatus of the
\* store, and after an 'online' event both are true, after an 'offline'
\* event both are false.
C28_NetworkFlagsAgree ==
    [][ /\ isOnline' = networkStatus'
        /\ Online => (isOnline' /\ networkStatus')
        /\ Offline => (~isOnline' /\ ~networkStatus') ]_vars

\* C28 witness: the network went offline, online (a queued request was
\* dispatched) and offline again, and both flags say offline.
C28_Witness ==
    /\ Len(dispatched) >= 1
    /\ req[dispatched[1]].flipped
    /\ ~isOnline
    /\ ~networkStatus

\* C29: retryCount never exceeds 3, and once the fallback page is shown
\* (hasError with retryCount at 3 or more) hasError stays true.
C29_BoundedRecovery ==
    [][ /\ boundary'.retryCount <= BoundaryRetryLimit
        /\ showsFallback(boundary) => boundary'.hasError ]_vars

\* C30: an attempt that has ended, by a response, an error status, a network
\* failure or an abort, leaves no timer pending, and a timeout ends only the
\* attempt whose own timer was armed for its fetch: no other attempt of that
\* request or of another one is aborted by it.
C30_TimerDiesWithAttempt ==
    [][ \A r \in Reqs :
          /\ ~InFlight(r)' => ~req'[r].timer
          /\ (req'[r].error.cause = "timeout" /\ req[r].error.cause # "timeout")
             => /\ req[r].timer
                /\ req[r].phase = "fetch"
                /\ req'[r].calls = req[r].calls
                /\ \A o \in Reqs \ {r} :
                      req'[o].error.cause = "timeout"
                          => req[o].error.cause = "timeout" ]_vars

\* C30 witness: one request was rejected with the timeout of its attempt and
\* has no timer left, while a later attempt of another request, whose first
\* attempt had failed, is in flight with its own timer armed.
C30_Witness ==
    \E r, o \in Reqs :
        /\ r # o
        /\ req[r].result.state = "rejected"
        /\ req[r].error.cause = "timeout"
        /\ ~req[r].timer
        /\ req[o].calls >= 2
        /\ req[o].phase = "fetch"
        /\ req[o].timer

====
